---- MODULE Spec2Model ----
(***************************************************************************)
(* Model of the quiz "Who'd they play for?" (src/Whod_they_play_for.py).   *)
(*                                                                         *)
(* The Streamlit script create_streamlit_app() is executed from top to     *)
(* bottom once per user interaction; st.rerun() aborts the running         *)
(* execution and starts another one with the same widget values.  One      *)
(* action of the model is one execution of the script: the user actions    *)
(* set a widget value and run the script, the action Rerun runs it again   *)
(* after st.rerun().  st.session_state is modelled by functions whose      *)
(* DOMAIN is the set of keys that are present.                             *)
(***************************************************************************)
EXTENDS Integers, Sequences, FiniteSets, TLC

VARIABLES
    difficulty_selection,  \* value of the difficulty selectbox (line 438)
    session_state,         \* remaining_reveals, previous_difficulty, current_difficulty
    level_player,          \* st.session_state["level_<k>_player"]
    level_selection,       \* st.session_state["level_<k>_selection"]
    multiselect_level,     \* widget state "multiselect_level_<k>"
    view,                  \* what the last execution rendered for each level
    pc,                    \* "idle": waiting for the user, "rerun": st.rerun() pending
    loop,                  \* position in the level loop (lines 480-489), LevelSpec only
    reveals_used           \* <<reveals since the player of level 1 was drawn>>, RevealSpec only

vars == <<difficulty_selection, session_state, level_player, level_selection,
          multiselect_level, view, pc, loop, reveals_used>>

(***************************************************************************)
(* Bounds of the model.                                                    *)
(***************************************************************************)
\* At the levels 1..RichLevels the user makes every selection of up to two
\* clubs, at the later levels the selections of exactly one club.
RichLevels == 2

\* The deepest level at whose render a query is made to fail.
MaxFailLevel == 1

\* reveals_used counts the reveals up to this number and stays there.
MaxRevealsCounted == 2

(***************************************************************************)
(* Program constants.                                                      *)
(***************************************************************************)
NumLevels == 10
Levels == 1..NumLevels

Placeholder == "Select a difficulty level"

game_difficulty ==
    [d \in {Placeholder, "Easy", "Normal", "Hard"} |->
        CASE d = "Easy" -> 17
          [] d = "Normal" -> 14
          [] d = "Hard" -> 10
          [] OTHER -> 0]

DifficultyOptions == DOMAIN game_difficulty
Difficulties == DifficultyOptions \ {Placeholder}

reveals_per_difficulty ==
    [d \in {"Easy", "Normal", "Hard"} |->
        CASE d = "Easy" -> 3
          [] d = "Normal" -> 2
          [] OTHER -> 1]

\* reveals_per_difficulty.get(difficulty_selection, 0)
RevealsFor(d) == IF d \in DOMAIN reveals_per_difficulty THEN reveals_per_difficulty[d] ELSE 0

(***************************************************************************)
(* The table streamlit.Fbref_Appearances.  Names are ordered as Python's   *)
(* sorted() orders them.                                                   *)
(***************************************************************************)
CL == "Champions League"

PlayerOrder == <<"A", "B", "C", "D", "E", "F", "G", "H", "I", "J">>
ClubOrder == <<"X", "Y", "Z">>

Row(p, t, c, n) ==
    [player_name |-> p, team_name |-> t, competition_name |-> c, number_of_seasons |-> n]

Fbref_Appearances ==
    { Row("A", "X", CL, 17), Row("A", "Y", CL, 17), Row("A", "Z", "Europa League", 3),
      Row("B", "X", CL, 14), Row("B", "Y", CL, 2),
      Row("C", "X", CL, 8), Row("D", "Y", CL, 7), Row("E", "X", CL, 6),
      Row("F", "Y", CL, 5), Row("G", "X", CL, 4), Row("H", "Y", CL, 3),
      Row("I", "X", CL, 2), Row("J", "Y", CL, 1) }

Range(f) == {f[x] : x \in DOMAIN f}

\* a sequence of n copies of x
Copies(x, n) == [i \in 1..n |-> x]

RECURSIVE SortedCopies(_, _, _)
\* the sorted list that holds count[x] copies of every x of order[i..]
SortedCopies(order, count, i) ==
    IF i > Len(order) THEN <<>>
    ELSE Copies(order[i], count[order[i]]) \o SortedCopies(order, count, i + 1)

\* load_players(minimum_seasons): SELECT DISTINCT player_name ... sorted
load_players(minimum_seasons) ==
    SelectSeq(PlayerOrder,
              LAMBDA p : \E r \in Fbref_Appearances :
                            /\ r.player_name = p
                            /\ r.competition_name = CL
                            /\ r.number_of_seasons >= minimum_seasons)

\* the rows of SELECT DISTINCT team_name, number_of_seasons for one player
PlayerRows(player_name) ==
    { <<r.team_name, r.number_of_seasons>> :
        r \in { q \in Fbref_Appearances :
                  q.competition_name = CL /\ q.player_name = player_name } }

\* df["number_of_seasons"].mode().iat[0]: the most frequent value, the
\* smallest one when several values are equally frequent
Mode(rows) ==
    LET values == {r[2] : r \in rows}
        freq(v) == Cardinality({r \in rows : r[2] = v})
        modes == {v \in values : \A w \in values : freq(w) <= freq(v)}
    IN  CHOOSE v \in modes : \A w \in modes : v <= w

\* load_players_data(player_name)
load_players_data(player_name) ==
    LET rows == PlayerRows(player_name)
        count == [t \in Range(ClubOrder) |-> Cardinality({r \in rows : r[1] = t})]
    IN  [teams |-> SortedCopies(ClubOrder, count, 1),
         number_of_seasons |-> Mode(rows)]

\* load_unique_teams(): every team of the table, whatever the competition
load_unique_teams ==
    SelectSeq(ClubOrder, LAMBDA t : \E r \in Fbref_Appearances : r.team_name = t)

(***************************************************************************)
(* st.session_state as functions over the keys that are present.           *)
(***************************************************************************)
NoKeys == << >>
Put(f, k, v) == [x \in (DOMAIN f) \cup {k} |-> IF x = k THEN v ELSE f[x]]
Del(f, k) == [x \in (DOMAIN f) \ {k} |-> f[x]]

\* The part of the state one execution of the script reads and writes.
State(ss, lp, ls, ms, vw) ==
    [session_state |-> ss, level_player |-> lp, level_selection |-> ls,
     multiselect_level |-> ms, view |-> vw]

\* The queries of render_level that read the database.
Queries == {"load_players", "load_players_data", "load_unique_teams"}

\* The buttons pressed in the execution: reveal is the level whose reveal
\* button was pressed (0: none). fail is << >>, or <<level, query>> when the
\* query raises an exception at the render of the level (its result is not
\* in the cache and the database cannot be reached).
NoClick == [reveal |-> 0, play_again |-> FALSE, fail |-> << >>]

\* the query raises at the render of the level
Unavailable(in, level, query) == in.fail = <<level, query>>

\* What render_level shows for one level.
Header(min_seasons, number_level_players, level_players) ==
    [min_seasons |-> min_seasons,
     number_level_players |-> number_level_players,
     level_players |-> level_players,
     player |-> << >>,
     number_of_seasons |-> 0,
     answers |-> << >>,
     multiselect |-> FALSE,
     selection |-> << >>,
     reveal_button |-> FALSE,
     revealed_team |-> << >>,
     outcome |-> "none",
     correct_answers |-> {},
     wrong_answers |-> {},
     play_again_button |-> FALSE]

Show(s, level, v) == [s EXCEPT !.view = Put(@, level, v)]

(***************************************************************************)
(* render_level, lines 155-320.                                            *)
(***************************************************************************)
\* line 167
NumberLevelPlayers(level_players, level) ==
    IF level # 1 THEN Len(level_players) - level ELSE Len(level_players)

\* st.session_state.values(), as far as a player name can be equal to one
SessionValues(s) ==
    Range(s.level_player)
        \cup {s.session_state[k] :
                k \in (DOMAIN s.session_state) \cap {"previous_difficulty", "current_difficulty"}}

\* ExcludeUsed without the exclusion of the players in use
ExcludeUsedNothing(level_players, s) == level_players

\* line 170
ExcludeUsed(level_players, s) ==
    SelectSeq(level_players, LAMBDA p : p \notin SessionValues(s))

\* NeedsPlayer that draws a player at every render
NeedsPlayerAlways(s, level) == TRUE

\* line 188
NeedsPlayer(s, level) == level \notin DOMAIN s.level_player

\* lines 188-190: random.choice(level_players), level_players not empty
AssignPlayer(s, level, level_players) ==
    IF NeedsPlayer(s, level)
    THEN {[s EXCEPT !.level_player = Put(@, level, p)] : p \in Range(level_players)}
    ELSE {s}

\* lines 193-194
InitSelection(s, level) ==
    IF level \notin DOMAIN s.level_selection
    THEN [s EXCEPT !.level_selection = Put(@, level, << >>)]
    ELSE s

\* lines 226-230: the multiselect returns a copy of the value of its widget,
\* [] for a widget without state
Multiselect(s, level) ==
    LET value == IF level \in DOMAIN s.multiselect_level
                 THEN s.multiselect_level[level] ELSE << >>
    IN  [s EXCEPT !.multiselect_level = Put(@, level, value),
                  !.level_selection = Put(@, level, value)]

\* RevealOffered that offers a reveal at 0 too
RevealOfferedAtZero(ss) == ss["remaining_reveals"] >= 0

\* line 233
RevealOffered(ss) == ss["remaining_reveals"] > 0

\* lines 237-240
Reveal(s, level, revealed_team) ==
    [s EXCEPT !.level_selection[level] = Append(@, revealed_team),
              !.session_state["remaining_reveals"] = @ - 1]

\* ShouldEvaluate that evaluates every selection that is not empty
ShouldEvaluateNonEmpty(selection, level_answers) == Len(selection) >= 1

\* line 247
ShouldEvaluate(selection, level_answers) == Len(selection) = Len(level_answers)

\* IsCorrect that compares the lists
IsCorrectSameList(selection, level_answers) == selection = level_answers

\* line 249
IsCorrect(selection, level_answers) == Range(selection) = Range(level_answers)

\* WrongAnswers with the difference the other way round
WrongAnswersMissing(selection, level_answers) == Range(level_answers) \ Range(selection)

\* line 279
WrongAnswers(selection, level_answers) == Range(selection) \ Range(level_answers)

\* line 283
CorrectAnswers(selection, level_answers) == Range(selection) \cap Range(level_answers)

\* line 257
LastLevel == 10

\* lines 268-269: every key of st.session_state is deleted
PlayAgain(s) ==
    [s EXCEPT !.session_state = NoKeys, !.level_player = NoKeys,
              !.level_selection = NoKeys, !.multiselect_level = NoKeys]

\* ResetPool with the threshold 10 for every difficulty
ResetPoolHard(starting_min_seasons) == load_players(10)

\* the player pool of line 310
ResetPool(starting_min_seasons) == load_players(starting_min_seasons)

\* lines 299-315, the pool of line 310 not empty
ResetRun(s, starting_min_seasons) ==
    {[s EXCEPT !.level_selection = NoKeys,
               !.multiselect_level = NoKeys,
               !.level_player = Put(NoKeys, 1, p)] :
        p \in Range(ResetPool(starting_min_seasons))}

\* lines 299-310 when random.choice raises IndexError at lvl = 1
ResetRunFails(s) ==
    [s EXCEPT !.level_selection = Del(@, 1), !.multiselect_level = Del(@, 1)]

\* lines 246-320
Evaluate(s, level, v, level_answers, starting_min_seasons, in) ==
    LET selection == s.level_selection[level]
    IN  IF ~ShouldEvaluate(selection, level_answers)
        THEN {[st |-> Show(s, level, v), result |-> "failed"]}
        ELSE IF IsCorrect(selection, level_answers)
        THEN LET vc == [v EXCEPT !.outcome = "correct",
                                 !.play_again_button = (level = LastLevel)]
             IN  IF level = LastLevel /\ in.play_again
                 THEN {[st |-> Show(PlayAgain(s), level, vc), result |-> "rerun"]}
                 ELSE {[st |-> Show(s, level, vc), result |-> "passed"]}
        ELSE LET vi == [v EXCEPT !.outcome = "incorrect",
                                 !.wrong_answers = WrongAnswers(selection, level_answers),
                                 !.correct_answers = CorrectAnswers(selection, level_answers)]
             IN  IF ResetPool(starting_min_seasons) = << >>
                 THEN {[st |-> Show(ResetRunFails(s), level, vi), result |-> "error"]}
                 ELSE {[st |-> Show(sr, level, vi), result |-> "rerun"] :
                          sr \in ResetRun(s, starting_min_seasons)}

\* lines 192-320, the level has its player
RenderAssigned(s, level, header, starting_min_seasons, in) ==
    LET s2 == InitSelection(s, level)
        player == s2.level_player[level]
        data == load_players_data(player)
        level_answers == data.teams
        s3 == Multiselect(s2, level)
        offered == RevealOffered(s3.session_state)
        v == [header EXCEPT !.player = <<player>>,
                            !.number_of_seasons = data.number_of_seasons,
                            !.answers = level_answers,
                            !.multiselect = TRUE,
                            !.selection = s3.level_selection[level],
                            !.reveal_button = offered]
    IN  IF Unavailable(in, level, "load_players_data")
        THEN \* line 198 raises
             {[st |-> Show(s2, level, [header EXCEPT !.outcome = "unavailable"]),
               result |-> "unavailable"]}
        ELSE IF Unavailable(in, level, "load_unique_teams")
        THEN \* line 228 raises, after the player is shown
             {[st |-> Show(s2, level, [header EXCEPT
                                          !.player = <<player>>,
                                          !.number_of_seasons = data.number_of_seasons,
                                          !.answers = level_answers,
                                          !.outcome = "unavailable"]),
               result |-> "unavailable"]}
        ELSE IF offered /\ in.reveal = level
        THEN {LET sr == Reveal(s3, level, team)
              IN  [st |-> Show(sr, level, [v EXCEPT !.revealed_team = <<team>>,
                                                    !.selection = sr.level_selection[level]]),
                   result |-> "rerun"] :
                 team \in Range(level_answers)}
        ELSE Evaluate(s3, level, v, level_answers, starting_min_seasons, in)

\* EmptyPoolError with the selection of lines 193-194 created before the draw
EmptyPoolErrorAfterSelection(s, level, header) ==
    Show(InitSelection(s, level), level, [header EXCEPT !.outcome = "error"])

\* line 190 when level_players is empty: random.choice raises IndexError
\* before the assignment
EmptyPoolError(s, level, header) ==
    Show(s, level, [header EXCEPT !.outcome = "error"])

\* render_level(level, min_seasons, starting_min_seasons): the states it can
\* end in, each with "passed" (returns True), "failed" (returns False),
\* "rerun" (st.rerun()), "error" (the draw from an empty list raises) or
\* "unavailable" (a query raises)
RenderLevel(s, level, min_seasons, starting_min_seasons, in) ==
    LET all_players == load_players(min_seasons)
        level_players == ExcludeUsed(all_players, s)
        header == Header(min_seasons, NumberLevelPlayers(all_players, level), level_players)
    IN  IF Unavailable(in, level, "load_players")
        THEN \* line 164 raises
             {[st |-> Show(s, level, [Header(min_seasons, 0, << >>) EXCEPT
                                         !.outcome = "unavailable"]),
               result |-> "unavailable"]}
        ELSE IF NeedsPlayer(s, level) /\ level_players = << >>
        THEN {[st |-> EmptyPoolError(s, level, header), result |-> "error"]}
        ELSE UNION {RenderAssigned(s1, level, header, starting_min_seasons, in) :
                       s1 \in AssignPlayer(s, level, level_players)}

(***************************************************************************)
(* create_streamlit_app, lines 325-492.                                    *)
(***************************************************************************)
\* MinSeasons that starts one season too low
MinSeasonsOffByOne(d, level) == game_difficulty[d] - level

\* line 482
MinSeasons(d, level) == game_difficulty[d] + 1 - level

\* InitReveals that sets the counter in every execution
InitRevealsAlways(s, d) ==
    [s EXCEPT !.session_state =
                 Put(Put(@, "remaining_reveals", RevealsFor(d)), "previous_difficulty", d)]

\* lines 451-455
InitReveals(s, d) ==
    IF \/ "remaining_reveals" \notin DOMAIN s.session_state
       \/ "previous_difficulty" \notin DOMAIN s.session_state
       \/ s.session_state["previous_difficulty"] # d
    THEN [s EXCEPT !.session_state =
                      Put(Put(@, "remaining_reveals", RevealsFor(d)), "previous_difficulty", d)]
    ELSE s

\* lines 460-461
InitCurrentDifficulty(s, d) ==
    IF "current_difficulty" \notin DOMAIN s.session_state
    THEN [s EXCEPT !.session_state = Put(@, "current_difficulty", d)]
    ELSE s

\* ResetLevels that deletes the selections and leaves the players
ResetLevelsKeepsPlayers(s, d) ==
    [s EXCEPT !.level_selection = NoKeys,
              !.multiselect_level = NoKeys,
              !.session_state["current_difficulty"] = d]

\* lines 465-474
ResetLevels(s, d) ==
    [s EXCEPT !.level_selection = NoKeys,
              !.multiselect_level = NoKeys,
              !.level_player = NoKeys,
              !.session_state["current_difficulty"] = d]

RECURSIVE RunLevelsPastFailed(_, _, _, _)
\* RunLevels without the break of lines 488-489
RunLevelsPastFailed(s, level, d, in) ==
    UNION {IF r.result \in {"passed", "failed"} /\ level < NumLevels
           THEN RunLevelsPastFailed(r.st, level + 1, d, in)
           ELSE {r} :
             r \in RenderLevel(s, level, MinSeasons(d, level), game_difficulty[d], in)}

RECURSIVE RunLevels(_, _, _, _)
\* lines 480-489, from the given level on
RunLevels(s, level, d, in) ==
    UNION {IF r.result = "passed" /\ level < NumLevels
           THEN RunLevels(r.st, level + 1, d, in)
           ELSE {r} :
             r \in RenderLevel(s, level, MinSeasons(d, level), game_difficulty[d], in)}

\* One execution of the script from line 438 on, with difficulty d selected.
CreateStreamlitApp(s, d, in) ==
    LET s1 == InitReveals([s EXCEPT !.view = NoKeys], d)
    IN  IF d = Placeholder
        THEN {[st |-> s1, result |-> "done"]}
        ELSE LET s2 == InitCurrentDifficulty(s1, d)
             IN  IF s2.session_state["current_difficulty"] # d
                 THEN {[st |-> ResetLevels(s2, d), result |-> "rerun"]}
                 ELSE RunLevels(s2, 1, d, in)

(***************************************************************************)
(* The user's inputs.                                                      *)
(***************************************************************************)
\* the shortest and the longest selection the user makes at a level
MinSelection(level) == IF level <= RichLevels THEN 0 ELSE 1
MaxSelection(level) == IF level <= RichLevels THEN 2 ELSE 1

\* the values a multiselect over load_unique_teams() can take: lists of
\* options without repetition
SelectionInputs(level) ==
    LET options == Range(load_unique_teams)
        lists == {<< >>} \cup {<<a>> : a \in options}
                    \cup {<<a, b>> : a \in options, b \in options}
                    \cup {<<a, b, c>> : a \in options, b \in options, c \in options}
    IN  {l \in lists : /\ Cardinality(Range(l)) = Len(l)
                       /\ Len(l) >= MinSelection(level)
                       /\ Len(l) <= MaxSelection(level)}

(***************************************************************************)
(* Actions.                                                                *)
(***************************************************************************)
NoLoop == [pc |-> "off"]

NoCount == << >>

\* The reveals since the player of level 1 was drawn, after an execution
\* that ends in the state st: 0 when the execution drew the player of level
\* 1, deleted it (lines 268-269, 465-474) or drew it again (lines 308-310),
\* one more when it revealed a team (lines 236-240).
CountReveals(st) ==
    LET kept == /\ 1 \in DOMAIN level_player
                /\ 1 \in DOMAIN st.level_player
                /\ \A k \in DOMAIN st.view : st.view[k].outcome # "incorrect"
        revealed == \E k \in DOMAIN st.view : st.view[k].revealed_team # << >>
    IN  IF reveals_used = NoCount THEN NoCount
        ELSE IF ~kept THEN <<0>>
        ELSE IF revealed /\ reveals_used[1] < MaxRevealsCounted THEN <<reveals_used[1] + 1>>
        ELSE reveals_used

\* the script runs with difficulty d selected, widget values ms and the
\* buttons of in pressed
RunScript(d, ms, in) ==
    \E r \in CreateStreamlitApp(
                State(session_state, level_player, level_selection, ms, view), d, in) :
        /\ in.fail # << >> => r.result = "unavailable"
        /\ session_state' = r.st.session_state
        /\ level_player' = r.st.level_player
        /\ level_selection' = r.st.level_selection
        /\ multiselect_level' = r.st.multiselect_level
        /\ view' = r.st.view
        /\ pc' = IF r.result = "rerun" THEN "rerun" ELSE "idle"
        /\ difficulty_selection' = d
        /\ reveals_used' = CountReveals(r.st)
        /\ UNCHANGED loop

\* the user picks an option of the selectbox of line 438
SelectDifficulty(d) ==
    /\ pc = "idle"
    /\ d # difficulty_selection
    /\ RunScript(d, multiselect_level, NoClick)

\* the user changes the multiselect of a level that is on the page
UpdateSelection(level, selection) ==
    /\ pc = "idle"
    /\ level \in DOMAIN view
    /\ view[level].multiselect
    /\ selection # multiselect_level[level]
    /\ RunScript(difficulty_selection, Put(multiselect_level, level, selection), NoClick)

\* the user presses "Reveal 1 Team" of a level that shows the button
ClickReveal(level) ==
    /\ pc = "idle"
    /\ level \in DOMAIN view
    /\ view[level].reveal_button
    /\ RunScript(difficulty_selection, multiselect_level, [NoClick EXCEPT !.reveal = level])

\* the user presses "Play Again"
ClickPlayAgain ==
    /\ pc = "idle"
    /\ LastLevel \in DOMAIN view
    /\ view[LastLevel].play_again_button
    /\ RunScript(difficulty_selection, multiselect_level, [NoClick EXCEPT !.play_again = TRUE])

\* lines 396-399: "Check for updates" clears the caches and calls st.rerun()
CheckForUpdates ==
    /\ pc = "idle"
    /\ pc' = "rerun"
    /\ UNCHANGED <<difficulty_selection, session_state, level_player, level_selection,
                   multiselect_level, view, loop, reveals_used>>

\* Rerun that starts the execution with the widgets back at their defaults
RerunLosesWidgets ==
    /\ pc = "rerun"
    /\ RunScript(difficulty_selection, NoKeys, NoClick)

\* the execution that st.rerun() starts
Rerun ==
    /\ pc = "rerun"
    /\ RunScript(difficulty_selection, multiselect_level, NoClick)

Init ==
    /\ difficulty_selection = Placeholder
    /\ session_state = NoKeys
    /\ level_player = NoKeys
    /\ level_selection = NoKeys
    /\ multiselect_level = NoKeys
    /\ view = NoKeys
    /\ pc = "rerun"
    /\ loop = NoLoop
    /\ reveals_used = NoCount

Next ==
    \/ \E d \in DifficultyOptions : SelectDifficulty(d)
    \/ \E level \in Levels : \E selection \in SelectionInputs(level) :
          UpdateSelection(level, selection)
    \/ \E level \in Levels : ClickReveal(level)
    \/ ClickPlayAgain
    \/ CheckForUpdates
    \/ Rerun

Spec == Init /\ [][Next]_vars

(***************************************************************************)
(* The executions in which a query cannot reach the database: the ones     *)
(* that st.rerun() starts after a reveal, a reset of the run, Play Again   *)
(* or a change of the difficulty.                                          *)
(***************************************************************************)
\* the places where an execution can raise: a query at the render of a level
Failures == {<<level, query>> : level \in 1..MaxFailLevel, query \in Queries}

\* the button presses and the failure of the execution
Failing(in, fail) == [in EXCEPT !.fail = fail]

\* the execution that st.rerun() starts, the query raises
RerunUnavailable(fail) ==
    /\ pc = "rerun"
    /\ RunScript(difficulty_selection, multiselect_level, Failing(NoClick, fail))

FailNext ==
    \/ \E d \in DifficultyOptions : SelectDifficulty(d)
    \/ \E level \in Levels : \E selection \in SelectionInputs(level) :
          UpdateSelection(level, selection)
    \/ \E level \in Levels : ClickReveal(level)
    \/ ClickPlayAgain
    \/ Rerun
    \/ \E fail \in Failures : RerunUnavailable(fail)

FailSpec == Init /\ [][FailNext]_vars

TypeOK ==
    /\ difficulty_selection \in DifficultyOptions
    /\ pc \in {"idle", "rerun"}
    /\ DOMAIN level_player \subseteq Levels
    /\ DOMAIN level_selection \subseteq Levels
    /\ DOMAIN multiselect_level \subseteq Levels
    /\ DOMAIN view \subseteq Levels
    /\ reveals_used \in {NoCount} \cup {<<n>> : n \in 0..MaxRevealsCounted}

(***************************************************************************)
(* The script with the reveals of a run counted.                           *)
(***************************************************************************)
RevealInit ==
    /\ difficulty_selection = Placeholder
    /\ session_state = NoKeys
    /\ level_player = NoKeys
    /\ level_selection = NoKeys
    /\ multiselect_level = NoKeys
    /\ view = NoKeys
    /\ pc = "rerun"
    /\ loop = NoLoop
    /\ reveals_used = <<0>>

RevealSpec == RevealInit /\ [][Next]_vars

(***************************************************************************)
(* The level loop of lines 480-489 on its own: render_level is any         *)
(* function that returns True or False.                                    *)
(***************************************************************************)
\* line 480: the loop starts at level 1
LevelInit ==
    /\ difficulty_selection = Placeholder
    /\ session_state = NoKeys
    /\ level_player = NoKeys
    /\ level_selection = NoKeys
    /\ multiselect_level = NoKeys
    /\ view = NoKeys
    /\ pc = "idle"
    /\ reveals_used = NoCount
    /\ \E d \in Difficulties : loop = [pc |-> "for", difficulty_selection |-> d, level |-> 1]

LoopFrame ==
    UNCHANGED <<difficulty_selection, session_state, level_player, level_selection,
                multiselect_level, view, pc, reveals_used>>

\* line 482
LoopMinSeasons ==
    /\ loop.pc = "for"
    /\ loop' = [pc |-> "render",
                difficulty_selection |-> loop.difficulty_selection,
                level |-> loop.level,
                min_seasons |-> MinSeasons(loop.difficulty_selection, loop.level)]
    /\ LoopFrame

\* line 485
LoopRenderLevel ==
    /\ loop.pc = "render"
    /\ \E passed \in BOOLEAN :
          loop' = [pc |-> "if",
                   difficulty_selection |-> loop.difficulty_selection,
                   level |-> loop.level,
                   min_seasons |-> loop.min_seasons,
                   passed |-> passed]
    /\ LoopFrame

\* lines 488-489
LoopBreak ==
    /\ loop.pc = "if"
    /\ ~loop.passed
    /\ loop' = [loop EXCEPT !.pc = "done"]
    /\ LoopFrame

\* line 480: the next level, or the end of the range
LoopContinue ==
    /\ loop.pc = "if"
    /\ loop.passed
    /\ loop' = IF loop.level < NumLevels
               THEN [pc |-> "for",
                     difficulty_selection |-> loop.difficulty_selection,
                     level |-> loop.level + 1]
               ELSE [loop EXCEPT !.pc = "done"]
    /\ LoopFrame

LevelNext == LoopMinSeasons \/ LoopRenderLevel \/ LoopBreak \/ LoopContinue

LevelSpec == LevelInit /\ [][LevelNext]_vars

(***************************************************************************)
(* Properties.                                                             *)
(***************************************************************************)
\* the remaining reveals, 0 while the key is not in st.session_state
Remaining ==
    IF "remaining_reveals" \in DOMAIN session_state
    THEN session_state["remaining_reveals"] ELSE 0

\* the execution that led to this state evaluated level k as incorrect
IncorrectAt(k) == k \in DOMAIN view /\ view[k].outcome = "incorrect"
IncorrectOutcome == \E k \in Levels : IncorrectAt(k)

\* the execution that led to this state revealed a team at level k
RevealedAt(k) == k \in DOMAIN view /\ view[k].revealed_team # << >>
RevealPerformed == \E k \in Levels : RevealedAt(k)

Evaluated(k) == view[k].outcome \in {"correct", "incorrect"}

\* C1: for every difficulty D and every level k in 1..10 the threshold passed
\* to render_level is start(D) + 1 - k with start = 17/14/10: start(D) at
\* level 1, one less per level, start(D) - 9 at level 10.
C1_Threshold ==
    loop.pc \in {"render", "if", "done"} =>
        LET start == CASE loop.difficulty_selection = "Easy" -> 17
                       [] loop.difficulty_selection = "Normal" -> 14
                       [] loop.difficulty_selection = "Hard" -> 10
        IN  /\ loop.level \in 1..10
            /\ loop.min_seasons = start + 1 - loop.level
            /\ loop.level = 1 => loop.min_seasons = start
            /\ loop.level = 10 => loop.min_seasons = start - 9

C1_Witness ==
    /\ loop.pc = "done"
    /\ loop.difficulty_selection = "Easy"
    /\ loop.level = 10
    /\ loop.passed
    /\ loop.min_seasons = 8

\* C2: in every reachable state the players assigned to the levels are
\* pairwise distinct.
C2_DistinctPlayers ==
    \A j \in DOMAIN level_player : \A k \in DOMAIN level_player :
        j # k => level_player[j] # level_player[k]

C2_Witness == DOMAIN level_player = Levels

\* C3 as stated: a rendered level's selection is evaluated if and only if it
\* has as many entries as the level has answers.
C3_EvaluatedIffSameSize ==
    \A k \in DOMAIN view :
        view[k].multiselect =>
            (Evaluated(k) <=> Len(view[k].selection) = Len(view[k].answers))

\* C3 amended: the selection of a rendered level whose reveal button was not
\* pressed in the execution is evaluated if and only if it has as many
\* entries as the level has answers; a selection with fewer entries is
\* never evaluated.
C3_EvaluatedIffSameSizeNoReveal ==
    \A k \in DOMAIN view :
        view[k].multiselect =>
            /\ ~RevealedAt(k) =>
                  (Evaluated(k) <=> Len(view[k].selection) = Len(view[k].answers))
            /\ Len(view[k].selection) < Len(view[k].answers) => ~Evaluated(k)

C3_Witness ==
    \E k \in DOMAIN view :
        /\ view[k].outcome = "incorrect"
        /\ Len(view[k].selection) = Len(view[k].answers)
        /\ Len(view[k].answers) = 2

\* C4: an evaluated selection is correct if and only if it is equal, as a
\* set, to the set of clubs of the level's player; otherwise it is incorrect.
C4_CorrectIffSetEqual ==
    \A k \in DOMAIN view :
        Evaluated(k) =>
            LET clubs == {r[1] : r \in PlayerRows(view[k].player[1])}
            IN  /\ view[k].outcome = "correct" <=> Range(view[k].selection) = clubs
                /\ view[k].outcome = "incorrect" <=> Range(view[k].selection) # clubs

C4_Witness ==
    \E k \in DOMAIN view :
        /\ view[k].outcome = "correct"
        /\ view[k].selection = <<"Y", "X">>
        /\ view[k].answers = <<"X", "Y">>

\* C5: every incorrect outcome reports the wrong set, selection minus
\* answers, and the correct count, the size of their intersection.
C5_WrongReport ==
    \A k \in DOMAIN view :
        view[k].outcome = "incorrect" =>
            LET clubs == {r[1] : r \in PlayerRows(view[k].player[1])}
                chosen == {view[k].selection[i] : i \in 1..Len(view[k].selection)}
            IN  /\ view[k].wrong_answers = {c \in chosen : c \notin clubs}
                /\ Cardinality(view[k].correct_answers)
                       = Cardinality({c \in chosen : c \in clubs})

C5_Witness ==
    \E k \in DOMAIN view :
        /\ view[k].outcome = "incorrect"
        /\ view[k].answers = <<"X", "Y">>
        /\ view[k].selection = <<"X", "Z">>
        /\ view[k].wrong_answers = {"Z"}
        /\ Cardinality(view[k].correct_answers) = 1

\* C6: the remaining-reveals counter is never negative, and while it is 0
\* no reveal is performed: no page offers a reveal button and no step
\* reveals a team or changes the counter or a selection by a reveal.
C6_NoRevealAtZero ==
    /\ [](Remaining >= 0)
    /\ []((pc = "idle" /\ Remaining = 0) =>
             \A k \in DOMAIN view : ~view[k].reveal_button)
    /\ [][Remaining = 0 => ~RevealPerformed']_vars

C6_Witness ==
    /\ pc = "idle"
    /\ difficulty_selection = "Easy"
    /\ "remaining_reveals" \in DOMAIN session_state
    /\ session_state["remaining_reveals"] = 0
    /\ 1 \in DOMAIN view
    /\ view[1].multiselect
    /\ ~view[1].reveal_button

\* C7: a reveal at a level while reveals remain takes 1 off the counter and
\* adds a club of the level's answers to the level's selection, and the
\* selection with which the level is rendered next contains that club.
C7_RevealFillsSelection ==
    [][\A k \in Levels :
          /\ RevealedAt(k)' =>
                /\ Remaining > 0
                /\ Remaining' = Remaining - 1
                /\ view'[k].revealed_team[1] \in Range(view'[k].answers)
                /\ view'[k].revealed_team[1] \in Range(level_selection'[k])
          /\ (RevealedAt(k) /\ k \in DOMAIN view' /\ view'[k].multiselect) =>
                view[k].revealed_team[1] \in Range(view'[k].selection)]_vars

\* C8: the reset after an incorrect outcome leaves no selection of any
\* level, no player of the levels 2..10, a level-1 player of the eligible
\* players at the starting threshold of the difficulty, and the counter of
\* reveals and the difficulty as they were.
C8_ResetAfterIncorrect ==
    [][IncorrectOutcome' =>
          /\ pc' = "rerun"
          /\ DOMAIN level_selection' = {}
          /\ DOMAIN level_player' = {1}
          /\ \E r \in Fbref_Appearances :
                /\ r.player_name = level_player'[1]
                /\ r.competition_name = CL
                /\ r.number_of_seasons >=
                      (CASE difficulty_selection' = "Easy" -> 17
                         [] difficulty_selection' = "Normal" -> 14
                         [] difficulty_selection' = "Hard" -> 10)
          /\ Remaining' = Remaining
          /\ difficulty_selection' = difficulty_selection
          /\ session_state' = session_state]_vars

C8_Witness ==
    /\ pc = "rerun"
    /\ difficulty_selection = "Easy"
    /\ IncorrectAt(1)
    /\ Remaining = 2
    /\ DOMAIN level_player = {1}
    /\ DOMAIN level_selection = {}

\* C9 as stated: the counter of reveals increases only in a step in which
\* the selected difficulty changes.
C9_IncreaseOnlyOnDifficultyChange ==
    [][Remaining' > Remaining => difficulty_selection' # difficulty_selection]_vars

\* C9 amended: the counter of reveals increases, to the budget of the
\* selected difficulty, only in a step in which the selected difficulty
\* changes or in the execution that follows Play Again, which deleted the
\* counter; a wrong-answer reset leaves it as it is.
C9_IncreaseOnlyOnDifficultyChangeOrPlayAgain ==
    [][/\ Remaining' > Remaining =>
             /\ \/ difficulty_selection' # difficulty_selection
                \/ "remaining_reveals" \notin DOMAIN session_state
             /\ Remaining' = RevealsFor(difficulty_selection')
       /\ IncorrectOutcome' => Remaining' = Remaining]_vars

C9_Witness ==
    /\ pc = "rerun"
    /\ "remaining_reveals" \notin DOMAIN session_state
    /\ LastLevel \in DOMAIN view
    /\ view[LastLevel].outcome = "correct"
    /\ difficulty_selection = "Hard"

\* the step resets the run: wrong answer, Play Again or change of difficulty
RunReset ==
    \/ IncorrectOutcome'
    \/ (pc' = "rerun" /\ DOMAIN session_state' = {})
    \/ /\ "current_difficulty" \in DOMAIN session_state
       /\ session_state'["current_difficulty"] # session_state["current_difficulty"]

\* C10: the player of a level stays the same in every step that is not a
\* run reset (wrong answer, Play Again, change of difficulty).
C10_StickyPlayer ==
    [][RunReset \/ \A k \in DOMAIN level_player :
                      k \in DOMAIN level_player' /\ level_player'[k] = level_player[k]]_vars

C10_Witness ==
    /\ pc = "idle"
    /\ DOMAIN level_player = 1..3
    /\ DOMAIN view = {1}
    /\ view[1].outcome = "none"
    /\ Remaining = 0

\* the run is Completed: the last execution evaluated level 10 as correct,
\* after the levels 1..9, and the players of the run are still assigned
Completed ==
    /\ DOMAIN level_player = Levels
    /\ LastLevel \in DOMAIN view
    /\ view[LastLevel].outcome = "correct"

\* the step is the execution in which Play Again was pressed
PlayAgainStep ==
    /\ pc' = "rerun"
    /\ session_state' = NoKeys
    /\ LastLevel \in DOMAIN view'
    /\ view'[LastLevel].play_again_button

DifficultyChangeStep ==
    /\ difficulty_selection' \in Difficulties
    /\ "current_difficulty" \in DOMAIN session_state
    /\ session_state["current_difficulty"] # difficulty_selection'

\* C12: Play Again and a change from one difficulty to another leave no
\* player and no selection of any level, and the execution that follows
\* draws the player of level 1 from all the eligible players at the starting
\* threshold (17/14/10) of the selected difficulty.
C12_FullReset ==
    [][/\ (PlayAgainStep \/ DifficultyChangeStep) =>
             /\ pc' = "rerun"
             /\ level_player' = NoKeys
             /\ level_selection' = NoKeys
             /\ multiselect_level' = NoKeys
       /\ (pc = "rerun" /\ level_player = NoKeys /\ difficulty_selection \in Difficulties) =>
             LET start == CASE difficulty_selection = "Easy" -> 17
                            [] difficulty_selection = "Normal" -> 14
                            [] difficulty_selection = "Hard" -> 10
                 eligible == {r.player_name : r \in {q \in Fbref_Appearances :
                                 /\ q.competition_name = CL
                                 /\ q.number_of_seasons >= start}}
             IN  /\ difficulty_selection' = difficulty_selection
                 /\ 1 \in DOMAIN level_player'
                 /\ level_player'[1] \in eligible
                 /\ Range(view'[1].level_players) = eligible]_vars

C12_Witness ==
    /\ pc = "rerun"
    /\ difficulty_selection = "Normal"
    /\ "current_difficulty" \in DOMAIN session_state
    /\ session_state["current_difficulty"] = "Normal"
    /\ view = NoKeys
    /\ level_player = NoKeys
    /\ level_selection = NoKeys
    /\ Remaining = 2

\* the entry of a level in a part of the session state
Entry(f, k) == IF k \in DOMAIN f THEN <<f[k]>> ELSE << >>

\* the execution that led to this state raised in a query at level k
UnavailableAt(k) == k \in DOMAIN view /\ view[k].outcome = "unavailable"

\* C13: a query that fails at the render of a level leaves the session
\* state as it was before the render: the player and the selection of the
\* level and of the levels after it are the ones from before, no
\* assignment and no selection entry is left behind.
C13_AtomicFailure ==
    [][\A k \in Levels :
          UnavailableAt(k)' =>
              \A j \in k..NumLevels :
                  /\ Entry(level_player', j) = Entry(level_player, j)
                  /\ Entry(level_selection', j) = Entry(level_selection, j)]_vars

\* C14: a level is rendered, and gets its player, only in an execution that
\* evaluated every level before it as correct; a Completed run has the ten
\* levels correct in one execution, each against the player the level has.
C14_LevelsInOrder ==
    /\ [](\A k \in DOMAIN view : \A j \in 1..(k - 1) :
              j \in DOMAIN view /\ view[j].outcome = "correct")
    /\ [][\A k \in Levels \ {1} :
              (k \in DOMAIN level_player' /\ k \notin DOMAIN level_player) =>
                  /\ k \in DOMAIN view'
                  /\ \A j \in 1..(k - 1) : view'[j].outcome = "correct"]_vars
    /\ [](Completed =>
              \A k \in Levels :
                  /\ k \in DOMAIN view
                  /\ view[k].outcome = "correct"
                  /\ view[k].player = <<level_player[k]>>
                  /\ Range(view[k].selection)
                         = {r[1] : r \in PlayerRows(level_player[k])})

C14_Witness ==
    /\ pc = "idle"
    /\ DOMAIN view = 1..3
    /\ view[1].outcome = "correct"
    /\ view[2].outcome = "correct"
    /\ view[3].outcome = "none"
    /\ view[3].player = <<level_player[3]>>
    /\ DOMAIN level_player = 1..3

\* C15: every player that load_players returns for the threshold of a
\* rendered level has, by load_players_data, a number of seasons of at
\* least the threshold, and the number of seasons shown for the player of
\* the level is not below the threshold of the level.
C15_SeasonsAtLeastThreshold ==
    \A k \in DOMAIN view :
        /\ \A p \in Range(load_players(view[k].min_seasons)) :
               load_players_data(p).number_of_seasons >= view[k].min_seasons
        /\ view[k].player # << >> => view[k].number_of_seasons >= view[k].min_seasons

\* C16: the number of players to pick from in the header of a rendered
\* level k is the number of the eligible players at the threshold of the
\* level that are not the players of the levels 1..k-1.
C16_HeaderCount ==
    pc = "idle" =>
        \A k \in DOMAIN view :
            view[k].number_level_players =
                Cardinality(Range(load_players(view[k].min_seasons))
                               \ {level_player[j] : j \in (DOMAIN level_player) \cap 1..(k - 1)})

\* C17: while the player of level 1 is neither deleted nor drawn again, the
\* reveals performed are at most the budget of the difficulty of the run
\* (Easy 3, Normal 2, Hard 1).
C17_RevealBudgetPerRun ==
    1 \in DOMAIN level_player =>
        reveals_used[1] <= (CASE session_state["current_difficulty"] = "Easy" -> 3
                              [] session_state["current_difficulty"] = "Normal" -> 2
                              [] session_state["current_difficulty"] = "Hard" -> 1)

\* C18: the render of a level that has no player and whose pool, the
\* eligible players without the players in use, is empty ends in an error:
\* the level gets no player and no selection entry, the players of the
\* other levels stay, and the counter of reveals is the one the execution
\* started the levels with.
C18_EmptyPoolError ==
    [][\A k \in Levels :
          (k \in DOMAIN view' /\ k \notin DOMAIN level_player
              /\ view'[k].level_players = << >>) =>
              /\ view'[k].outcome = "error"
              /\ k \notin DOMAIN level_player'
              /\ k \notin DOMAIN level_selection'
              /\ \A j \in Levels \ {k} : Entry(level_player', j) = Entry(level_player, j)
              /\ Remaining' = IF session_state["previous_difficulty"] = difficulty_selection'
                              THEN Remaining
                              ELSE RevealsFor(difficulty_selection')]_vars

C18_Witness ==
    /\ pc = "idle"
    /\ difficulty_selection = "Normal"
    /\ DOMAIN view = 1..3
    /\ view[3].outcome = "error"
    /\ view[3].level_players = << >>
    /\ DOMAIN level_player = 1..2
    /\ DOMAIN level_selection = 1..2
    /\ Remaining = 1

====
